---------------------------- MODULE Spec2Model ----------------------------
(***************************************************************************)
(* A model of the organoid tracking pipeline.                              *)
(*                                                                         *)
(*   code/OrganoidTracker.py  main() and process_frame(): the frame loop   *)
(*                            that fills contour_data / all_contours and   *)
(*                            writes the overlay video (SpecTracker).      *)
(*   code/OrganoidPlotter.py  the cleaning loop that turns the metric      *)
(*                            table into the *_smooth columns              *)
(*                            (SpecPlotter).                               *)
(*                                                                         *)
(* OpenCV, pandas and SciPy are libraries outside the repository.  Their   *)
(* results are inputs of the model (the contours findContours returns,     *)
(* with the numbers contourArea, arcLength, moments, boundingRect and      *)
(* convexHull give for them) or are modelled by their documented           *)
(* behaviour (interpolate, bfill, ffill, reindex, rolling, and the         *)
(* argument checks of savgol_filter).                                      *)
(*                                                                         *)
(* Numbers: Python floats are modelled by exact rationals <<num, den>>.    *)
(* Times are in seconds (the source's timedelta has microseconds; seconds  *)
(* keep start_time + frame_idx * frame_period inside TLC's integers).      *)
(***************************************************************************)
EXTENDS Integers, Sequences, FiniteSets, TLC

\* ------------------------------------------------------------------------
\* Bounds of the model
\* ------------------------------------------------------------------------
MaxFrames == 3
MaxContours == 2
MaxFrameSkip == 2
MaxSeriesLen == 12
MaxExcluded == 2

\* ------------------------------------------------------------------------
\* Configuration constants of the two scripts
\* ------------------------------------------------------------------------
\* min_area as committed; the model also runs with min_area = 0
MinAreaDefault == 2000
\* timedelta(days=14), in seconds
total_duration == 1209600
\* datetime(2025, 5, 5, 16, 0, 0): timestamps are seconds counted from it
start_time == 0
z_thresh == 3
window_length == 10
poly_order == 7
APPLY_ROLLING == 1
ROLLING_WINDOW == 50
\* the bound of the centroid placeholder pre-filter
centroid_bound == 650

VARIABLES
    \* ---- OrganoidTracker.py ----
    pc,             \* position in main(): start, loop, process, release, save,
                    \* done, or raised (an exception ended main())
    frame_skip,     \* USER CONFIG: analyse every N-th frame
    min_area,       \* USER CONFIG: the smallest contour area that is tracked
    n_frames,       \* frames the video source delivers before a read fails
    cap_opened,     \* the reader could open video_path
    cap_released,   \* cap.release() was called
    cap_pos,        \* frames consumed from the source by read() and grab()
    out_opened,     \* the writer could open overlay_path
    out_released,   \* out.release() was called
    total_frames,
    frame_period,
    frame_idx,
    contour_data,   \* frame-wise metric records
    all_contours,   \* raw contours: <<cnt, timestamp>>
    overlay,        \* the frames the overlay writer stored
    contours,       \* the contours of the mask of the frame being processed
    frame,          \* the caller's frame object after the last process_frame call
    result_frame,   \* what the last process_frame call returned
    frames_read,    \* number of successful cap.read() calls
    processed,      \* frame indices handed to process_frame, in call order
    reported,       \* the lines main() printed
    \* ---- OrganoidPlotter.py ----
    df,             \* the metric table read from the CSV
    stage,          \* position in the cleaning loop
    metric_i,       \* index of the loop's current metric
    series,         \* the loop's series, then series_filtered
    smoothed,       \* sg_series, then the rolling average of it
    n_points,
    win,
    polyorder,
    clean_df        \* the *_smooth columns stored so far

trackerVars == <<pc, frame_skip, min_area, n_frames, cap_opened, cap_released, cap_pos,
                 out_opened, out_released, total_frames, frame_period, frame_idx,
                 contour_data, all_contours, overlay, contours, frame, result_frame,
                 frames_read, processed, reported>>

plotterVars == <<df, stage, metric_i, series, smoothed, n_points, win, polyorder, clean_df>>

vars == <<trackerVars, plotterVars>>

\* ------------------------------------------------------------------------
\* Numbers
\* ------------------------------------------------------------------------
Abs(x) == IF x < 0 THEN -x ELSE x

Min2(a, b) == IF a <= b THEN a ELSE b

Max2(a, b) == IF a >= b THEN a ELSE b

\* The float a / b, b # 0, as an exact rational.
Ratio(a, b) == <<a, b>>

\* The number 0 the guarded divisions fall back to.
Zero == <<0, 1>>

IsFinite(q) == q[2] # 0

\* p <= q for rationals with positive denominators
RatLeq(p, q) == p[1] * q[2] <= q[1] * p[2]

RECURSIVE Gcd(_, _)
Gcd(a, b) == IF b = 0 THEN a ELSE Gcd(b, a % b)

\* timedelta / int: the quotient rounded half to even, to the time resolution.
TimedeltaDiv(d, n) ==
    LET q == d \div n
        r == d % n
    IN  IF 2 * r > n \/ (2 * r = n /\ q % 2 = 1) THEN q + 1 ELSE q

\* ========================================================================
\* OrganoidTracker.py
\* ========================================================================

\* What cv2 reports for one external contour of the mask: contourArea,
\* arcLength, the moments m00, m10, m01, the boundingRect w and h, and the
\* contourArea of the convexHull.
Contour(a, p, m0, m1x, m1y, bw, bh, ha) ==
    [area |-> a, perimeter |-> p, m00 |-> m0, m10 |-> m1x, m01 |-> m1y,
     w |-> bw, h |-> bh, hull_area |-> ha]

\* The contours a mask is made of.  The code guards perimeter, m00, hull_area,
\* w * h and max(w, h) against 0, so the degenerate contours (area 0, which
\* pass the filter when min_area is 0) have 0 among the values of each.
ContourChoices ==
    { Contour(1999, 170, 1999, 199900, 99950, 50, 40, 1999),   \* below 2000
      Contour(2000, 180, 2000, 200000, 100000, 50, 40, 2000),  \* exactly 2000
      Contour(2000, 240, 2000, 300000, 80000, 80, 25, 2400),   \* same area, other shape
      Contour(3000, 220, 3000, 600000, 450000, 60, 50, 3100),
      Contour(0, 0, 0, 0, 0, 1, 1, 0),                         \* a single point
      Contour(0, 6, 0, 0, 0, 0, 3, 0),                         \* w = 0
      Contour(0, 6, 0, 0, 0, 3, 0, 0) }                        \* h = 0

\* The contours cv2.findContours returns for one frame's mask, in its order.
Masks == UNION { [1..n -> ContourChoices] : n \in 0..MaxContours }

\* max(contours, key=cv2.contourArea): the first contour of maximal area.
MaxByArea(cs) ==
    LET i == CHOOSE k \in 1..Len(cs) :
                 /\ \A j \in 1..Len(cs) : cs[j].area <= cs[k].area
                 /\ \A j \in 1..(k - 1) : cs[j].area < cs[k].area
    IN  cs[i]

\* The two early returns of process_frame.
NoDetection(cs) ==
    \/ Len(cs) = 0
    \/ MaxByArea(cs).area < min_area

\* aspect_ratio = w / h divides without a guard: ZeroDivisionError when h = 0.
Raises(cnt) == cnt.h = 0

\* The record process_frame appends for cnt.  shape_factor is the rational
\* factor of pi; eccentricity is the rational under the square root.
Metrics(cnt, timestamp) ==
    LET lo == Min2(cnt.w, cnt.h)
        hi == Max2(cnt.w, cnt.h)
    IN  [timestamp    |-> timestamp,
         area         |-> cnt.area,
         perimeter    |-> cnt.perimeter,
         centroid_x   |-> IF cnt.m00 # 0 THEN cnt.m10 \div cnt.m00 ELSE 0,
         centroid_y   |-> IF cnt.m00 # 0 THEN cnt.m01 \div cnt.m00 ELSE 0,
         aspect_ratio |-> Ratio(cnt.w, cnt.h),
         shape_factor |-> IF cnt.perimeter # 0
                          THEN Ratio(4 * cnt.area, cnt.perimeter * cnt.perimeter)
                          ELSE Zero,
         solidity     |-> IF cnt.hull_area # 0 THEN Ratio(cnt.area, cnt.hull_area) ELSE Zero,
         extent       |-> IF cnt.w * cnt.h # 0 THEN Ratio(cnt.area, cnt.w * cnt.h) ELSE Zero,
         eccentricity |-> IF hi # 0 THEN Ratio(hi * hi - lo * lo, hi * hi) ELSE Zero]

\* The overlay process_frame draws with drawContours, circle and putText.
Annotation == {"contour", "centroid", "label"}

\* A frame as cap.read() returns it: the pixels of frame i, nothing drawn.
FreshFrame(i) == [idx |-> i, drawn |-> {}]

\* Timestamp with the frame index left out of the product.
TimestampNoIndex(idx, period) == start_time + period

\* ts = start_time + frame_idx * frame_period
Timestamp(idx, period) == start_time + idx * period

\* process_frame(frame, timestamp), given the contours of the frame's mask:
\* the new contour_data and all_contours, the pixels of the caller's frame
\* object after the call (every return statement returns that same object),
\* and whether the call raised.  The overlay is drawn into frame itself; the
\* division that raises comes after all_contours.append and before the
\* drawing.
process_frame(f, cs, timestamp, cd, ac) ==
    IF NoDetection(cs)
    THEN [contour_data |-> cd, all_contours |-> ac, frame |-> f, raised |-> FALSE]
    ELSE LET cnt == MaxByArea(cs)
         IN  IF Raises(cnt)
             THEN [contour_data |-> cd,
                   all_contours |-> Append(ac, <<cnt, timestamp>>),
                   frame |-> f, raised |-> TRUE]
             ELSE [contour_data |-> Append(cd, Metrics(cnt, timestamp)),
                   all_contours |-> Append(ac, <<cnt, timestamp>>),
                   frame |-> [f EXCEPT !.drawn = Annotation], raised |-> FALSE]

InitTracker ==
    /\ pc = "start"
    /\ frame_skip \in 1..MaxFrameSkip
    /\ min_area \in {0, MinAreaDefault}
    /\ n_frames \in 0..MaxFrames
    /\ cap_opened = FALSE
    /\ cap_released = FALSE
    /\ cap_pos = 0
    /\ out_opened = FALSE
    /\ out_released = FALSE
    /\ total_frames = 0
    /\ frame_period = 0
    /\ frame_idx = 0
    /\ contour_data = <<>>
    /\ all_contours = <<>>
    /\ overlay = <<>>
    /\ contours = <<>>
    /\ frame = FreshFrame(0)
    /\ result_frame = FreshFrame(0)
    /\ frames_read = 0
    /\ processed = <<>>
    /\ reported = {}

\* Lines 93-106: open the reader, read its properties, open the writer.
\* Neither constructor raises when it cannot open; an unopened reader reports
\* 0 for every property.  frame_count is CAP_PROP_FRAME_COUNT: the number of
\* frames, 0 when the container does not tell, or an estimate above it.
Setup ==
    /\ pc = "start"
    /\ \E cap_ok \in BOOLEAN, out_ok \in BOOLEAN, frame_count \in {0, n_frames, MaxFrames} :
          LET count == IF cap_ok THEN frame_count ELSE 0
              total == IF count # 0 THEN count ELSE 1
          IN  /\ cap_opened' = cap_ok
              /\ out_opened' = out_ok
              /\ total_frames' = total
              /\ frame_period' = TimedeltaDiv(total_duration, total)
    /\ frame_idx' = 0
    /\ pc' = "loop"
    /\ UNCHANGED <<frame_skip, min_area, n_frames, cap_released, cap_pos, out_released,
                   contour_data, all_contours, overlay, contours, frame, result_frame,
                   frames_read, processed, reported>>
    /\ UNCHANGED plotterVars

\* cap.isOpened()
isOpened == cap_opened /\ ~cap_released

\* Line 108: the while condition is false.
LoopExit ==
    /\ pc = "loop"
    /\ ~isOpened
    /\ pc' = "release"
    /\ UNCHANGED <<frame_skip, min_area, n_frames, cap_opened, cap_released, cap_pos,
                   out_opened, out_released, total_frames, frame_period, frame_idx,
                   contour_data, all_contours, overlay, contours, frame, result_frame,
                   frames_read, processed, reported>>
    /\ UNCHANGED plotterVars

\* Lines 109-112: a frame that frame_skip leaves out is grabbed and dropped.
SkipFrame ==
    /\ pc = "loop"
    /\ isOpened
    /\ frame_idx % frame_skip # 0
    /\ frame_idx' = frame_idx + 1
    /\ cap_pos' = IF cap_pos < n_frames THEN cap_pos + 1 ELSE cap_pos
    /\ UNCHANGED <<pc, frame_skip, min_area, n_frames, cap_opened, cap_released,
                   out_opened, out_released, total_frames, frame_period,
                   contour_data, all_contours, overlay, contours, frame, result_frame,
                   frames_read, processed, reported>>
    /\ UNCHANGED plotterVars

\* Lines 114-116: cap.read() returns ret = False; break.
ReadFail ==
    /\ pc = "loop"
    /\ isOpened
    /\ frame_idx % frame_skip = 0
    /\ cap_pos >= n_frames
    /\ pc' = "release"
    /\ UNCHANGED <<frame_skip, min_area, n_frames, cap_opened, cap_released, cap_pos,
                   out_opened, out_released, total_frames, frame_period, frame_idx,
                   contour_data, all_contours, overlay, contours, frame, result_frame,
                   frames_read, processed, reported>>
    /\ UNCHANGED plotterVars

\* Lines 114-116: cap.read() returns a frame.  found is what findContours
\* (line 47) will return for the mask of this frame.
ReadFrame ==
    /\ pc = "loop"
    /\ isOpened
    /\ frame_idx % frame_skip = 0
    /\ cap_pos < n_frames
    /\ \E found \in Masks : contours' = found
    /\ frame' = FreshFrame(frame_idx)
    /\ cap_pos' = cap_pos + 1
    /\ frames_read' = frames_read + 1
    /\ pc' = "process"
    /\ UNCHANGED <<frame_skip, min_area, n_frames, cap_opened, cap_released,
                   out_opened, out_released, total_frames, frame_period, frame_idx,
                   contour_data, all_contours, overlay, result_frame,
                   processed, reported>>
    /\ UNCHANGED plotterVars

\* Lines 118-123: the frame is processed and written.  out.write stores the
\* frame only in an opened writer and does not raise otherwise.  When
\* process_frame raises, nothing in main() catches it: main() ends there.
ProcessFrame ==
    /\ pc = "process"
    /\ LET ts == Timestamp(frame_idx, frame_period)
           r  == process_frame(frame, contours, ts, contour_data, all_contours)
       IN  /\ contour_data' = r.contour_data
           /\ all_contours' = r.all_contours
           /\ frame' = r.frame
           /\ IF r.raised
              THEN /\ pc' = "raised"
                   /\ UNCHANGED <<result_frame, overlay, frame_idx>>
              ELSE /\ pc' = "loop"
                   /\ result_frame' = r.frame
                   /\ overlay' = IF out_opened THEN Append(overlay, r.frame)
                                               ELSE overlay
                   /\ frame_idx' = frame_idx + 1
    /\ contours' = <<>>
    /\ processed' = Append(processed, frame_idx)
    /\ UNCHANGED <<frame_skip, min_area, n_frames, cap_opened, cap_released, cap_pos,
                   out_opened, out_released, total_frames, frame_period,
                   frames_read, reported>>
    /\ UNCHANGED plotterVars

\* Lines 125-126.
Release ==
    /\ pc = "release"
    /\ cap_released' = TRUE
    /\ out_released' = TRUE
    /\ pc' = "save"
    /\ UNCHANGED <<frame_skip, min_area, n_frames, cap_opened, out_opened, cap_pos, total_frames, frame_period,
                   frame_idx, contour_data, all_contours, overlay, contours,
                   frame, result_frame, frames_read, processed, reported>>
    /\ UNCHANGED plotterVars

\* Lines 128-146: the two CSV files, each only for a non-empty list, and the
\* final line, printed in every run that gets here.
Save ==
    /\ pc = "save"
    /\ reported' = (IF contour_data # <<>> THEN {"Saved contour metrics"} ELSE {})
                   \cup (IF all_contours # <<>> THEN {"Saved raw contours"} ELSE {})
                   \cup {"Overlay video saved"}
    /\ pc' = "done"
    /\ UNCHANGED <<frame_skip, min_area, n_frames, cap_opened, cap_released, cap_pos,
                   out_opened, out_released, total_frames, frame_period, frame_idx,
                   contour_data, all_contours, overlay, contours, frame, result_frame,
                   frames_read, processed>>
    /\ UNCHANGED plotterVars

\* main() is not running: the state of the tracker while the plotter is modelled.
TrackerIdle ==
    /\ pc = "idle"
    /\ frame_skip = 1
    /\ min_area = MinAreaDefault
    /\ n_frames = 0
    /\ cap_opened = FALSE
    /\ cap_released = FALSE
    /\ cap_pos = 0
    /\ out_opened = FALSE
    /\ out_released = FALSE
    /\ total_frames = 0
    /\ frame_period = 0
    /\ frame_idx = 0
    /\ contour_data = <<>>
    /\ all_contours = <<>>
    /\ overlay = <<>>
    /\ contours = <<>>
    /\ frame = FreshFrame(0)
    /\ result_frame = FreshFrame(0)
    /\ frames_read = 0
    /\ processed = <<>>
    /\ reported = {}

\* ========================================================================
\* OrganoidPlotter.py: the cleaning loop
\* ========================================================================

\* A missing value (NaN); every other value v has v[2] # 0.
NaN == <<0, 0>>

IsNaN(v) == v[2] = 0

\* metrics + ["centroid_x", "centroid_y"]
metrics == <<"area", "solidity">>

LoopMetrics == metrics \o <<"centroid_x", "centroid_y">>

Row(a, s, cx, cy) == [area |-> a, solidity |-> s, centroid_x |-> cx, centroid_y |-> cy]

\* Metric tables of n rows, all alike but for one injected area sample at row p
\* (p = 0: none).
OutlierTables ==
    { [k \in 1..n |-> Row(IF k = p THEN 10000 ELSE 10, 1, 700, 700)] :
          n \in 1..MaxSeriesLen, p \in 0..MaxSeriesLen }

\* Metric tables of n rows whose rows in E carry a placeholder centroid below
\* (650, 650), and one row a centroid with only x below the bound.
PlaceholderTables ==
    UNION { { [k \in 1..n |-> IF k \in E THEN Row(10, 1, 600, 600)
                              ELSE IF k = n THEN Row(10, 1, 600, 700)
                              ELSE Row(10, 1, 700, 700)] :
                  E \in { X \in SUBSET (1..n) : Cardinality(X) \in 1..MaxExcluded } } :
            n \in 1..MaxSeriesLen }

RECURSIVE SumSeq(_)
SumSeq(s) == IF s = <<>> THEN 0 ELSE Head(s) + SumSeq(Tail(s))

RECURSIVE GcdSeq(_)
GcdSeq(s) == IF s = <<>> THEN 0 ELSE Gcd(Abs(Head(s)), GcdSeq(Tail(s)))

\* Lines 57-62: the metric's column, its index the table's; for the centroid
\* columns the rows with both coordinates below the bound are dropped (boolean
\* indexing removes the rows, it does not leave NaN in their place).
SelectSeries(table, metric) ==
    LET col == [k \in 1..Len(table) |-> [i |-> k, v |-> Ratio(table[k][metric], 1)]]
        Keep(e) == ~(table[e.i].centroid_x < centroid_bound
                     /\ table[e.i].centroid_y < centroid_bound)
    IN  IF metric \in {"centroid_x", "centroid_y"} THEN SelectSeq(col, Keep) ELSE col

\* Outlier with the squared deviations summed but not averaged: the standard
\* deviation is taken as sqrt(sum (x - mean)^2), so that z^2 = dev^2 / (n V).
OutlierUnnormalised(xs, k) ==
    LET n == Len(xs)
        g == GcdSeq([j \in 1..n |-> xs[j] - xs[1]])
        D(a, b) == (xs[a] - xs[b]) \div g
        dev == SumSeq([j \in 1..n |-> D(k, j)])
        V == SumSeq([a \in 1..n |-> SumSeq([b \in 1..n |-> D(a, b) * D(a, b)])]) \div 2
    IN  g # 0 /\ dev * dev > z_thresh * z_thresh * n * V

\* Line 65-66, for sample k of the integer samples xs:
\*     | (x - mean) / std(ddof=0) | > z_thresh
\* squared and multiplied by n^2: with dev = n (x_k - mean) = sum_j (x_k - x_j)
\* and V = n^2 var = sum_{a<b} (x_a - x_b)^2 it is dev^2 > z_thresh^2 V.  The
\* differences are divided by their common divisor g, which leaves the
\* comparison as it is.  std = 0 (g = 0) makes every z-score NaN, and the
\* comparison False.
Outlier(xs, k) ==
    LET n == Len(xs)
        g == GcdSeq([j \in 1..n |-> xs[j] - xs[1]])
        D(a, b) == (xs[a] - xs[b]) \div g
        dev == SumSeq([j \in 1..n |-> D(k, j)])
        V == SumSeq([a \in 1..n |-> SumSeq([b \in 1..n |-> D(a, b) * D(a, b)])]) \div 2
    IN  g # 0 /\ dev * dev > z_thresh * z_thresh * V

\* series.mask(z_scores.abs() > z_thresh)
ZScoreMask(s) ==
    LET xs == [k \in 1..Len(s) |-> s[k].v[1]]
    IN  [k \in 1..Len(s) |-> IF Outlier(xs, k) THEN [s[k] EXCEPT !.v = NaN] ELSE s[k]]

ValidBefore(s, k) == { i \in 1..(k - 1) : ~IsNaN(s[i].v) }

ValidAfter(s, k) == { j \in (k + 1)..Len(s) : ~IsNaN(s[j].v) }

SetMax(S) == CHOOSE x \in S : \A y \in S : y <= x

SetMin(S) == CHOOSE x \in S : \A y \in S : x <= y

\* The point at position k of the line through (i, p) and (j, q).
Lerp(p, q, i, j, k) ==
    <<p[1] * q[2] * (j - k) + q[1] * p[2] * (k - i), p[2] * q[2] * (j - i)>>

\* Series.interpolate(): linear over the positions, forward: a missing value
\* between two valid ones lies on the line through them, a missing value after
\* the last valid one repeats it, one before the first valid one stays missing.
Interpolate(s) ==
    [k \in 1..Len(s) |->
        IF ~IsNaN(s[k].v) \/ ValidBefore(s, k) = {} THEN s[k]
        ELSE LET i == SetMax(ValidBefore(s, k))
             IN  IF ValidAfter(s, k) = {} THEN [s[k] EXCEPT !.v = s[i].v]
                 ELSE LET j == SetMin(ValidAfter(s, k))
                      IN  [s[k] EXCEPT !.v = Lerp(s[i].v, s[j].v, i, j, k)]]

\* Series.bfill(): a missing value takes the next valid one.
Bfill(s) ==
    [k \in 1..Len(s) |->
        IF ~IsNaN(s[k].v) \/ ValidAfter(s, k) = {} THEN s[k]
        ELSE [s[k] EXCEPT !.v = s[SetMin(ValidAfter(s, k))].v]]

\* Series.ffill(): a missing value takes the last valid one.
Ffill(s) ==
    [k \in 1..Len(s) |->
        IF ~IsNaN(s[k].v) \/ ValidBefore(s, k) = {} THEN s[k]
        ELSE [s[k] EXCEPT !.v = s[SetMax(ValidBefore(s, k))].v]]

\* Lines 69-70.
FillGaps(s) == Ffill(Bfill(Interpolate(s)))

\* n | 1 for n >= 0
OrOne(n) == IF n % 2 = 0 THEN n + 1 ELSE n

\* Lines 74-76.
WindowFor(n) ==
    LET w == Min2(window_length, IF n % 2 = 1 THEN n ELSE n - 1)
    IN  IF w < 5 THEN (IF n >= 5 THEN 5 ELSE OrOne(n)) ELSE w

\* min(poly_order, win - 1)
PolyorderFor(w) == Min2(poly_order, w - 1)

\* The argument checks of scipy.signal.savgol_filter in its default mode
\* 'interp': the window must fit the data, the order must be below the window.
SavgolRejects(n, w, order) == w > n \/ order >= w

\* The positions a window of w samples around k covers; at the edges the filter
\* fits the first, or the last, w samples.
SavgolWindow(n, w, k) ==
    LET half == w \div 2
        lo == IF k - half < 1 THEN 1 ELSE IF k - half + w - 1 > n THEN n - w + 1 ELSE k - half
    IN  lo..(lo + w - 1)

\* savgol_filter: one output per input, under the input's index; the model keeps
\* of each output only whether it is a number, which it is when every sample of
\* its window is.
Savgol(s, w) ==
    [k \in 1..Len(s) |->
        [i |-> s[k].i,
         notna |-> \A j \in SavgolWindow(Len(s), w, k) : ~IsNaN(s[j].v)]]

\* rolling(window, center=True, min_periods=1).mean(): the mean of the numbers
\* among positions k - window \div 2 .. k + (window - 1) \div 2; a number when
\* there is at least one.
RollingMean(sm, window) ==
    [k \in 1..Len(sm) |->
        [i |-> sm[k].i,
         notna |-> \E j \in 1..Len(sm) :
                       /\ k - (window \div 2) <= j
                       /\ j <= k + ((window - 1) \div 2)
                       /\ sm[j].notna]]

\* pd.Series(smoothed, index=series_filtered.index).reindex(clean_df.index): a
\* label the series does not have gets NaN.
Reindex(sm, n) ==
    [k \in 1..n |->
        [i |-> k,
         notna |-> \E e \in 1..Len(sm) : sm[e].i = k /\ sm[e].notna]]

InitPlotter ==
    /\ df \in OutlierTables \cup PlaceholderTables
    /\ stage = "select"
    /\ metric_i = 1
    /\ series = <<>>
    /\ smoothed = <<>>
    /\ n_points = 0
    /\ win = 0
    /\ polyorder = 0
    /\ clean_df = [m \in {} |-> <<>>]

\* The script is not running: the state of the plotter while main() is modelled.
PlotterIdle ==
    /\ df = <<>>
    /\ stage = "idle"
    /\ metric_i = 1
    /\ series = <<>>
    /\ smoothed = <<>>
    /\ n_points = 0
    /\ win = 0
    /\ polyorder = 0
    /\ clean_df = [m \in {} |-> <<>>]

\* Lines 56-62.
Select ==
    /\ stage = "select"
    /\ series' = SelectSeries(df, LoopMetrics[metric_i])
    /\ stage' = "zscore"
    /\ UNCHANGED <<df, metric_i, smoothed, n_points, win, polyorder, clean_df>>
    /\ UNCHANGED trackerVars

\* Lines 65-66.
ZScore ==
    /\ stage = "zscore"
    /\ series' = ZScoreMask(series)
    /\ stage' = "fill"
    /\ UNCHANGED <<df, metric_i, smoothed, n_points, win, polyorder, clean_df>>
    /\ UNCHANGED trackerVars

\* Lines 69-70.
Fill ==
    /\ stage = "fill"
    /\ series' = FillGaps(series)
    /\ stage' = "window"
    /\ UNCHANGED <<df, metric_i, smoothed, n_points, win, polyorder, clean_df>>
    /\ UNCHANGED trackerVars

\* Lines 73-76, and the polyorder argument of line 78.
Window ==
    /\ stage = "window"
    /\ n_points' = Len(series)
    /\ win' = WindowFor(Len(series))
    /\ polyorder' = PolyorderFor(WindowFor(Len(series)))
    /\ stage' = "savgol"
    /\ UNCHANGED <<df, metric_i, series, smoothed, clean_df>>
    /\ UNCHANGED trackerVars

\* Line 78.  savgol_filter raises ValueError when it rejects its arguments,
\* and the script ends there.  An even window is rejected by the SciPy
\* releases that require an odd one and filtered by the later ones.
SavgolFilter ==
    /\ stage = "savgol"
    /\ \/ /\ SavgolRejects(n_points, win, polyorder) \/ win % 2 = 0
          /\ stage' = "error"
          /\ UNCHANGED smoothed
       \/ /\ ~SavgolRejects(n_points, win, polyorder)
          /\ smoothed' = Savgol(series, win)
          /\ stage' = "rolling"
    /\ UNCHANGED <<df, metric_i, series, n_points, win, polyorder, clean_df>>
    /\ UNCHANGED trackerVars

\* Lines 81-86.
Rolling ==
    /\ stage = "rolling"
    /\ smoothed' = IF APPLY_ROLLING # 0 /\ ROLLING_WINDOW >= 2
                   THEN RollingMean(smoothed, ROLLING_WINDOW)
                   ELSE smoothed
    /\ stage' = "store"
    /\ UNCHANGED <<df, metric_i, series, n_points, win, polyorder, clean_df>>
    /\ UNCHANGED trackerVars

\* Lines 89-90, and the loop's step to the next metric.
Store ==
    /\ stage = "store"
    /\ clean_df' = [m \in DOMAIN clean_df \cup {LoopMetrics[metric_i]} |->
                       IF m = LoopMetrics[metric_i] THEN Reindex(smoothed, Len(df))
                       ELSE clean_df[m]]
    /\ IF metric_i < Len(LoopMetrics)
       THEN metric_i' = metric_i + 1 /\ stage' = "select"
       ELSE metric_i' = metric_i /\ stage' = "done"
    /\ UNCHANGED <<df, series, smoothed, n_points, win, polyorder>>
    /\ UNCHANGED trackerVars

\* ========================================================================
\* Specifications
\* ========================================================================

TrackerNext ==
    \/ Setup
    \/ LoopExit
    \/ SkipFrame
    \/ ReadFail
    \/ ReadFrame
    \/ ProcessFrame
    \/ Release
    \/ Save

PlotterNext ==
    \/ Select
    \/ ZScore
    \/ Fill
    \/ Window
    \/ SavgolFilter
    \/ Rolling
    \/ Store

\* One run of OrganoidTracker.py.
TrackerInit == InitTracker /\ PlotterIdle

SpecTracker == TrackerInit /\ [][TrackerNext]_vars

\* One run of the cleaning loop of OrganoidPlotter.py.
PlotterInit == TrackerIdle /\ InitPlotter

SpecPlotter == PlotterInit /\ [][PlotterNext]_vars

\* ========================================================================
\* Properties
\* ========================================================================

Last(s) == s[Len(s)]

\* The one row p of df whose area is the injected 10000 among areas of 10.
InjectedAt(p) ==
    /\ p \in 1..Len(df)
    /\ df[p].area = 10000
    /\ \A k \in 1..Len(df) : k # p => df[k].area = 10

\* v lies between the smaller and the larger of a and b.
Between(v, a, b) ==
    /\ ~IsNaN(v)
    /\ (RatLeq(a, v) /\ RatLeq(v, b)) \/ (RatLeq(b, v) /\ RatLeq(v, a))

\* The injected sample at p was masked by the Z-score step and gap filling
\* put a value between its two neighbours in its place.
MaskedAndFilled(p) ==
    /\ (stage = "fill" => IsNaN(series[p].v))
    /\ (stage \in {"window", "savgol"} =>
            Between(series[p].v, series[p - 1].v, series[p + 1].v))

\* C1: after the cleaning loop every smoothed column has the length and the
\* index of the input table and no missing value at any index, the rows the
\* centroid pre-filter excluded among them.
C1_SmoothColumnsComplete ==
    stage = "done" =>
        \A m \in {"area", "solidity", "centroid_x", "centroid_y"} :
            /\ m \in DOMAIN clean_df
            /\ Len(clean_df[m]) = Len(df)
            /\ \A k \in 1..Len(df) : clean_df[m][k].i = k /\ clean_df[m][k].notna

\* C2 as stated: in an area series of 10s with one injected 10000, of ANY
\* length >= 3 and with the injected sample at any interior position, the
\* Z-score step masks the injected sample and gap filling replaces it by a
\* value between its two neighbours.
C2_OutlierMaskedFromLength3 ==
    \A p \in 2..(Len(df) - 1) :
        (metric_i = 1 /\ Len(df) >= 3 /\ InjectedAt(p)) => MaskedAndFilled(p)

\* C2 as amended: the same, for series of more than z_thresh^2 + 1 samples
\* (length >= 11 for z_thresh = 3): the z-score of one deviating sample among n
\* is sqrt(n - 1), which exceeds 3 only then.
C2_OutlierMaskedFromLength11 ==
    \A p \in 2..(Len(df) - 1) :
        (metric_i = 1 /\ Len(df) - 1 > z_thresh * z_thresh /\ InjectedAt(p))
            => MaskedAndFilled(p)

\* C2, witness: a series of 11 or more samples whose injected interior sample
\* was masked and now holds the value of its neighbours, 10.
C2_Witness ==
    /\ stage = "window"
    /\ metric_i = 1
    /\ Len(df) - 1 > z_thresh * z_thresh
    /\ \E p \in 2..(Len(df) - 1) :
          /\ InjectedAt(p)
          /\ series[p].v[2] # 0
          /\ series[p].v[1] = 10 * series[p].v[2]

\* C3: processing a frame without detection (no contour, or the largest
\* below min_area) adds no record and no raw contour, keeps the frame's
\* pixels and writes that frame to the overlay; and whenever main() is not in
\* the middle of an iteration the overlay holds as many frames as were read.
C3_OverlayFramesEqualFramesRead ==
    [][ /\ pc' # "process" => Len(overlay') = frames_read'
        /\ (pc = "process" /\ \A j \in 1..Len(contours) : contours[j].area < min_area) =>
               /\ contour_data' = contour_data
               /\ all_contours' = all_contours
               /\ frame' = frame
               /\ overlay' = Append(overlay, frame) ]_vars

\* C4: for a contour that passes the min-area filter process_frame never
\* raises, and every field of the record is a finite number, a division by a
\* zero bounding-box dimension (aspect_ratio = w / h included) yielding 0.
C4_NoDivisionError ==
    /\ pc # "raised"
    /\ \A k \in 1..Len(contour_data) :
          /\ IsFinite(contour_data[k].aspect_ratio)
          /\ IsFinite(contour_data[k].shape_factor)
          /\ IsFinite(contour_data[k].solidity)
          /\ IsFinite(contour_data[k].extent)
          /\ IsFinite(contour_data[k].eccentricity)

\* C5: however main() stops, the reader and the writer have been released.
C5_ReleasedWhenStopped ==
    pc \in {"done", "raised"} => cap_released /\ out_released

\* C6: when the input video or the overlay output could not be opened, main()
\* does not complete normally and does not report the overlay video as saved.
C6_OpenFailureAborts ==
    (pc # "start" /\ (~cap_opened \/ ~out_opened)) =>
        pc # "done" /\ "Overlay video saved" \notin reported

\* C7: frames are processed in strictly increasing frame index, every record
\* carries the timestamp start_time + frame_index * (total_duration /
\* total_frames) of a processed frame, and contour_data is strictly increasing
\* in timestamp, so that it holds at most one record per frame index.
C7_TimestampsStrictlyIncreasing ==
    /\ \A a, b \in 1..Len(processed) : a < b => processed[a] < processed[b]
    /\ \A k \in 1..Len(contour_data) :
          \E a \in 1..Len(processed) :
              contour_data[k].timestamp =
                  start_time + processed[a] * TimedeltaDiv(total_duration, total_frames)
    /\ \A a, b \in 1..Len(contour_data) :
          a < b => contour_data[a].timestamp < contour_data[b].timestamp
    /\ Len(contour_data) <= Len(processed)

\* C7, witness: with frame_skip = 2 the frames 0 and 2 were processed, frame 1
\* was skipped, and both processed frames gave a record, a period apart twice
\* over.
C7_Witness ==
    /\ frame_skip = 2
    /\ processed = <<0, 2>>
    /\ Len(contour_data) = 2
    /\ contour_data[2].timestamp = contour_data[1].timestamp + 2 * frame_period
    /\ frame_period > 0

\* C8: for a gap-filled series of n >= 1 samples the window handed to the
\* smoothing filter is odd and at most n: window_length when that is so, and
\* otherwise the largest odd size not above n.
C8_WindowOddAndFits ==
    (stage = "savgol" /\ n_points >= 1) =>
        /\ win % 2 = 1
        /\ win <= n_points
        /\ win = window_length \/ win = (IF n_points % 2 = 1 THEN n_points ELSE n_points - 1)

\* C9: process_frame leaves the pixels of the frame it was given unchanged
\* (the overlay is drawn on a copy): the caller's frame is the same before and
\* after the call.
C9_CallerFrameUnchanged == [][pc = "process" => frame' = frame]_vars

=============================================================================
